---- MODULE Spec2Model ----
(***************************************************************************)
(* Model of the wake-word / sleep-word transcription controller            *)
(* (useSpeechRecognition in src/WakeWordSTT.tsx, lines 282-546) and of the *)
(* recognition session it drives.                                          *)
(*                                                                         *)
(* Text is a sequence of one-character strings, so that toLowerCase, trim, *)
(* includes and += are computed as the code computes them.                 *)
(*                                                                         *)
(* React state set with setState is visible to the session handlers only   *)
(* after the component has rendered again and the effect of lines 405-488  *)
(* has registered new handlers: `state` is the value last set, `hState` is *)
(* the value captured by the handlers that are registered now.             *)
(*                                                                         *)
(* After the component has unmounted nothing renders any more and React    *)
(* drops its useState values and ignores their setters, while the refs,    *)
(* the handlers and the timeouts that are still scheduled live on with the *)
(* closures they have.                                                     *)
(***************************************************************************)
EXTENDS Naturals, Sequences, FiniteSets

VARIABLES
  wakeWord,            \* prop wakeWord
  sleepWord,           \* prop sleepWord
  isSupported,         \* recognitionRef.current exists / isSupported
  state,               \* useState<TranscriptState>: value last set
  hState,              \* `state` captured by the registered handlers
  transcripts,         \* useState<TranscriptEntry[]>
  interimTranscript,   \* useState('')
  error,               \* useState<string | null>
  isListeningRef,      \* isListeningRef.current
  restartAttemptsRef,  \* restartAttemptsRef.current
  inactivityTimerRef,  \* inactivityTimerRef.current: 0 is null, else a timer id
  timers,              \* ids of the timeouts that are scheduled and not cleared
  continuous,          \* recognitionRef.current.continuous
  session,             \* the recognition session: stopped, running, stopping
  now,                 \* the clock: the value Date.now() returns
  mounted,             \* the component is mounted (its cleanup has not run)
  notified,            \* the onStateChange call made by the last step, or "none"
  endRun,              \* history: consecutive onend events and the state before them
  trigger,             \* history: interim text that has just matched the wake word
  last                 \* history: the operation that produced this state

vars == << wakeWord, sleepWord, isSupported, state, hState, transcripts,
           interimTranscript, error, isListeningRef, restartAttemptsRef,
           inactivityTimerRef, timers, continuous, session, now, mounted,
           notified, endRun, trigger, last >>

-----------------------------------------------------------------------------
(* Bounds                                                                  *)

MaxSegs == 2      \* segments of one result batch, from event.resultIndex on
MaxLog == 2       \* entries the transcript log may hold
MaxNow == 2       \* the clock stops advancing at this value

-----------------------------------------------------------------------------
(* Text                                                                    *)

Idle == "idle"
ListeningForWake == "listening-for-wake"
Transcribing == "transcribing"

EmptyText == << >>

LowerChar(c) == IF c = "A" THEN "a" ELSE IF c = "B" THEN "b" ELSE c

toLowerCase(s) == [i \in 1..Len(s) |-> LowerChar(s[i])]

RECURSIVE trimStart(_)
trimStart(s) == IF s # << >> /\ Head(s) = " " THEN trimStart(Tail(s)) ELSE s

RECURSIVE trimEnd(_)
trimEnd(s) ==
  IF s # << >> /\ s[Len(s)] = " " THEN trimEnd(SubSeq(s, 1, Len(s) - 1)) ELSE s

trim(s) == trimEnd(trimStart(s))

includes(s, t) ==
  \E i \in 1..(Len(s) + 1) :
    i + Len(t) <= Len(s) + 1 /\ SubSeq(s, i, i + Len(t) - 1) = t

\* a || b on strings: the empty string is falsy
OrText(a, b) == IF a # EmptyText THEN a ELSE b

-----------------------------------------------------------------------------
(* Configuration and inputs                                                *)

WakeWords == { <<" ", "A">> }
SleepWords == { <<"B", " ">> }

\* transcripts the engine may put in one segment of a batch
SegTexts == { <<"A">>, <<"b", " ">>, <<" ">> }

Segments == [transcript : SegTexts, isFinal : BOOLEAN]

\* The segments event.results[event.resultIndex ..] of one result event. The
\* loop of lines 414-422 concatenates the final and the interim segments
\* apart, so a batch and the batch with its final segments moved to the
\* front give the same two texts: the latter stands for both.
FinalsFirst(b) ==
  \A i \in 1..Len(b) : \A j \in 1..Len(b) :
    (i < j /\ b[j].isFinal) => b[i].isFinal

Batches ==
  { b \in UNION { [1..n -> Segments] : n \in 1..MaxSegs } : FinalsFirst(b) }

ErrorCodes == { "no-speech", "aborted", "network" }

NoError == "null"
ErrUnsupported == "Speech recognition is not supported in this browser"
ErrRecognition == "Recognition error: "
ErrStopped == "Speech recognition stopped. Please restart manually."
ErrStartFailed == "Failed to start recognition: "

maxRestartAttempts == 3

-----------------------------------------------------------------------------
(* recognition.onresult, lines 411-422: the loop over event.results        *)

RECURSIVE finalTextOf(_)
finalTextOf(b) ==
  IF b = << >> THEN EmptyText
  ELSE IF Head(b).isFinal THEN Head(b).transcript \o finalTextOf(Tail(b))
       ELSE finalTextOf(Tail(b))

RECURSIVE interimTextOf(_)
interimTextOf(b) ==
  IF b = << >> THEN EmptyText
  ELSE IF Head(b).isFinal THEN interimTextOf(Tail(b))
       ELSE Head(b).transcript \o interimTextOf(Tail(b))

\* checkForWakeWord / checkForSleepWord: the test they make on the text
wakeWordIn(text) == includes(trim(toLowerCase(text)), trim(toLowerCase(wakeWord)))

sleepWordIn(text) == includes(trim(toLowerCase(text)), trim(toLowerCase(sleepWord)))

\* the text the wake-word branch scans
textToCheck(finalText, interimText) == OrText(finalText, interimText)

-----------------------------------------------------------------------------
(* The recognition session (SpeechRecognition object of recognitionRef)    *)

\* recognition.start(): returns, or throws with this message
StartOutcomes(sess) ==
  IF sess = "stopped" THEN { "ok", "service unavailable" }
  ELSE { "recognition has already started" }

\* recognition.stop(): returns, or throws with this message
StopOutcomes ==
  { "ok", "service unavailable" }
    \cup (IF session = "stopped" THEN { "recognition has not started" } ELSE { })

\* e.message.includes('already started')
alreadyStarted(message) == message = "recognition has already started"

SessionAfterStart(outcome) == IF outcome = "ok" THEN "running" ELSE session

SessionAfterStop(outcome) ==
  IF outcome = "ok" /\ session = "running" THEN "stopping" ELSE session

-----------------------------------------------------------------------------
(* Inactivity timer                                                        *)

\* setTimeout returns an id no scheduled timeout has
NewTimerId(ts) == CHOOSE i \in 1..(Cardinality(ts) + 1) : i \notin ts

\* a plausible slip: the timer is armed without cancelling the pending one
resetInactivityTimerKeepingOld(cs) ==
  LET id == NewTimerId(timers)
  IN  IF cs = ListeningForWake THEN << id, timers \cup { id } >>
      ELSE << inactivityTimerRef, timers >>

\* resetInactivityTimer as built by the render whose state was cs:
\* the pair << inactivityTimerRef, timers >> it leaves
resetInactivityTimer(cs) ==
  LET cleared == timers \ { inactivityTimerRef }
      id == NewTimerId(cleared)
  IN  IF cs = ListeningForWake THEN << id, cleared \cup { id } >>
      ELSE << inactivityTimerRef, cleared >>

-----------------------------------------------------------------------------
(* History                                                                 *)

\* onStateChange has not been called
NoCall == "none"

NoOp == [op |-> "init", from |-> Idle, arg |-> ""]

\* the command op with outcome arg, called in the present state
Did(op, arg) == [op |-> op, from |-> state, arg |-> arg]

\* the event op with argument or outcome arg
DidEvent(op, arg) == [op |-> op, from |-> "", arg |-> arg]

NoRun == [n |-> 0, from |-> Idle]

-----------------------------------------------------------------------------
(* Initial state: the component has mounted and rendered                   *)

Init ==
  /\ wakeWord \in WakeWords
  /\ sleepWord \in SleepWords
  /\ isSupported \in BOOLEAN
  /\ state = Idle
  /\ hState = Idle
  /\ transcripts = << >>
  /\ interimTranscript = EmptyText
  /\ error = NoError
  /\ isListeningRef = FALSE
  /\ restartAttemptsRef = 0
  /\ inactivityTimerRef = 0
  /\ timers = { }
  /\ continuous = FALSE
  /\ session = "stopped"
  /\ now = 0
  /\ mounted = TRUE
  /\ notified = NoCall
  /\ endRun = NoRun
  /\ trigger = EmptyText
  /\ last = NoOp

Config == << wakeWord, sleepWord, isSupported >>

\* a useState setter called with new on a value that is old: React ignores
\* the call once the component has unmounted
set(new, old) == IF mounted THEN new ELSE old

-----------------------------------------------------------------------------
(* React renders again and the effect registers handlers that capture the  *)
(* state last set                                                          *)

Render ==
  /\ mounted
  /\ hState # state
  /\ hState' = state
  /\ notified' = NoCall
  /\ UNCHANGED << Config, now, state, transcripts, interimTranscript, error,
                  isListeningRef, restartAttemptsRef, inactivityTimerRef,
                  timers, continuous, session, mounted, endRun, trigger, last >>

-----------------------------------------------------------------------------
(* start(), called from the Start button: the render it causes is flushed  *)
(* before the next event is handled                                        *)

Start ==
  /\ mounted
  /\ endRun' = NoRun
  /\ trigger' = EmptyText
  /\ UNCHANGED << Config, now, transcripts, interimTranscript, mounted >>
  /\ IF ~isSupported
     THEN /\ error' = ErrUnsupported
          /\ last' = Did("start", "return")
          /\ notified' = NoCall
          /\ UNCHANGED << state, hState, isListeningRef, restartAttemptsRef,
                          inactivityTimerRef, timers, continuous, session >>
     ELSE \E outcome \in StartOutcomes(session) :
          /\ last' = Did("start", outcome)
          /\ isListeningRef' = TRUE
          /\ restartAttemptsRef' = 0
          /\ continuous' = FALSE
          /\ state' = ListeningForWake
          /\ notified' = ListeningForWake
          /\ hState' = ListeningForWake
          /\ session' = SessionAfterStart(outcome)
          /\ error' = IF outcome = "ok" \/ alreadyStarted(outcome) THEN NoError
                      ELSE ErrStartFailed \o outcome
          /\ inactivityTimerRef' =
               IF outcome = "ok" THEN resetInactivityTimer(hState)[1]
               ELSE inactivityTimerRef
          /\ timers' =
               IF outcome = "ok" THEN resetInactivityTimer(hState)[2] ELSE timers

-----------------------------------------------------------------------------
(* stop(): the body shared by the Stop button and the inactivity timeout.  *)
(* ts is the set of live timers when it is entered.                        *)

\* a plausible slip: stop() leaves the listening intent standing
stopKeepingIntent(ts, outcome) ==
  /\ isListeningRef' = isListeningRef
  /\ restartAttemptsRef' = 0
  /\ inactivityTimerRef' = 0
  /\ timers' = ts \ { inactivityTimerRef }
  /\ session' = SessionAfterStop(outcome)
  /\ state' = IF outcome = "ok" THEN set(Idle, state) ELSE state
  /\ notified' = IF outcome = "ok" THEN Idle ELSE NoCall
  /\ interimTranscript' =
       IF outcome = "ok" THEN set(EmptyText, interimTranscript)
       ELSE interimTranscript
  /\ UNCHANGED << Config, now, transcripts, error, continuous, mounted >>

stop(ts, outcome) ==
  /\ isListeningRef' = FALSE
  /\ restartAttemptsRef' = 0
  /\ inactivityTimerRef' = 0
  /\ timers' = ts \ { inactivityTimerRef }
  /\ session' = SessionAfterStop(outcome)
  /\ state' = IF outcome = "ok" THEN set(Idle, state) ELSE state
  /\ notified' = IF outcome = "ok" THEN Idle ELSE NoCall
  /\ interimTranscript' =
       IF outcome = "ok" THEN set(EmptyText, interimTranscript)
       ELSE interimTranscript
  /\ UNCHANGED << Config, now, transcripts, error, continuous, mounted >>

\* stop() from the Stop button: the render it causes is flushed at once
Stop ==
  /\ mounted
  /\ endRun' = NoRun
  /\ trigger' = EmptyText
  /\ IF ~isSupported
     THEN /\ last' = Did("stop", "return")
          /\ notified' = NoCall
          /\ UNCHANGED << Config, now, state, hState, transcripts, interimTranscript,
                          error, isListeningRef, restartAttemptsRef,
                          inactivityTimerRef, timers, continuous, session,
                          mounted >>
     ELSE \E outcome \in StopOutcomes :
          /\ last' = Did("stop", outcome)
          /\ stop(timers, outcome)
          /\ hState' = IF outcome = "ok" THEN Idle ELSE hState

\* the timeout callback of resetInactivityTimer, lines 373-376
InactivityTimeout ==
  \E t \in timers : \E outcome \in StopOutcomes :
    /\ last' = DidEvent("timeout", outcome)
    /\ endRun' = NoRun
    /\ trigger' = EmptyText
    /\ stop(timers \ { t }, outcome)
    /\ hState' = hState

\* a plausible slip: clearing the log clears the error too
ClearTranscriptsAndError ==
  /\ mounted
  /\ transcripts' = << >>
  /\ interimTranscript' = EmptyText
  /\ error' = NoError
  /\ last' = DidEvent("clear", IF transcripts # << >> /\ interimTranscript # EmptyText
                                THEN "log and interim text" ELSE "")
  /\ notified' = NoCall
  /\ endRun' = NoRun
  /\ trigger' = EmptyText
  /\ UNCHANGED << Config, now, state, hState, isListeningRef, restartAttemptsRef,
                  inactivityTimerRef, timers, continuous, session, mounted >>

\* clearTranscripts()
ClearTranscripts ==
  /\ mounted
  /\ transcripts' = << >>
  /\ interimTranscript' = EmptyText
  /\ last' = DidEvent("clear", IF transcripts # << >> /\ interimTranscript # EmptyText
                                THEN "log and interim text" ELSE "")
  /\ notified' = NoCall
  /\ endRun' = NoRun
  /\ trigger' = EmptyText
  /\ UNCHANGED << Config, now, state, hState, error, isListeningRef,
                  restartAttemptsRef, inactivityTimerRef, timers, continuous,
                  session, mounted >>

-----------------------------------------------------------------------------
(* recognition.onresult                                                    *)

Digit(d) == << "0", "1", "2", "3", "4", "5", "6", "7", "8", "9" >>[d + 1]

\* Number.prototype.toString: the decimal digits of n
RECURSIVE toString(_)
toString(n) == IF n < 10 THEN Digit(n) ELSE toString(n \div 10) \o Digit(n % 10)

\* the entry of lines 351-356
Entry(text, isFinal) ==
  [id |-> toString(now), text |-> trim(text), timestamp |-> now,
   isFinal |-> isFinal]

\* addTranscript: the pair << transcripts, interimTranscript >> it leaves
addTranscript(text, isFinal) ==
  IF trim(text) = EmptyText THEN << transcripts, interimTranscript >>
  ELSE IF isFinal THEN << Append(transcripts, Entry(text, isFinal)), EmptyText >>
       ELSE << transcripts, text >>

\* a plausible slip: the sleep word is looked for in interim text too
sleepWordDetectedInAnyText(finalText, interimText) ==
  OrText(finalText, interimText) # EmptyText
    /\ sleepWordIn(OrText(finalText, interimText))

\* line 440: finalText && checkForSleepWord(finalText)
sleepWordDetected(finalText, interimText) ==
  finalText # EmptyText /\ sleepWordIn(finalText)

\* a plausible slip: a sleep-word match leaves the session in continuous mode
onresultKeepingMode(cs, finalText, interimText) ==
  LET same == [state |-> state, notified |-> NoCall,
               restartAttempts |-> restartAttemptsRef,
               continuous |-> continuous, transcripts |-> transcripts,
               interim |-> interimTranscript]
      added == IF finalText # EmptyText THEN addTranscript(finalText, TRUE)
               ELSE IF interimText # EmptyText THEN addTranscript(interimText, FALSE)
               ELSE << transcripts, interimTranscript >>
  IN  IF cs = ListeningForWake
      THEN IF wakeWordIn(textToCheck(finalText, interimText))
           THEN [same EXCEPT !.state = Transcribing, !.notified = Transcribing,
                             !.restartAttempts = 0, !.continuous = TRUE]
           ELSE same
      ELSE IF cs = Transcribing
      THEN IF sleepWordDetected(finalText, interimText)
           THEN [same EXCEPT !.state = ListeningForWake,
                             !.notified = ListeningForWake]
           ELSE [same EXCEPT !.transcripts = added[1], !.interim = added[2]]
      ELSE same

\* lines 427-455 run by a handler that captured state cs
onresult(cs, finalText, interimText) ==
  LET same == [state |-> state, notified |-> NoCall,
               restartAttempts |-> restartAttemptsRef,
               continuous |-> continuous, transcripts |-> transcripts,
               interim |-> interimTranscript]
      added == IF finalText # EmptyText THEN addTranscript(finalText, TRUE)
               ELSE IF interimText # EmptyText THEN addTranscript(interimText, FALSE)
               ELSE << transcripts, interimTranscript >>
  IN  IF cs = ListeningForWake
      THEN IF wakeWordIn(textToCheck(finalText, interimText))
           THEN [same EXCEPT !.state = Transcribing, !.notified = Transcribing,
                             !.restartAttempts = 0, !.continuous = TRUE]
           ELSE same
      ELSE IF cs = Transcribing
      THEN IF sleepWordDetected(finalText, interimText)
           THEN [same EXCEPT !.state = ListeningForWake,
                             !.notified = ListeningForWake,
                             !.continuous = FALSE]
           ELSE [same EXCEPT !.transcripts = added[1], !.interim = added[2]]
      ELSE same

OnResult(b) ==
  LET finalText == finalTextOf(b)
      interimText == interimTextOf(b)
      timer == resetInactivityTimer(hState)
      r == onresult(hState, finalText, interimText)
  IN  /\ isSupported
      /\ session # "stopped"
      /\ Len(r.transcripts) <= MaxLog
      /\ inactivityTimerRef' = timer[1]
      /\ timers' = timer[2]
      /\ state' = set(r.state, state)
      /\ notified' = r.notified
      /\ restartAttemptsRef' = r.restartAttempts
      /\ continuous' = r.continuous
      /\ transcripts' = set(r.transcripts, transcripts)
      /\ interimTranscript' = set(r.interim, interimTranscript)
      /\ last' = DidEvent("result", "")
      /\ endRun' = NoRun
      /\ trigger' = IF r.state = Transcribing /\ hState = ListeningForWake
                        /\ finalText = EmptyText
                     THEN interimText ELSE EmptyText
      /\ UNCHANGED << Config, now, hState, error, isListeningRef, session, mounted >>

-----------------------------------------------------------------------------
(* recognition.onerror                                                     *)

\* a plausible slip: 'aborted' is reported like any other code
onerrorReportingAborted(code) ==
  IF code = "no-speech" THEN error ELSE ErrRecognition \o code

onerror(code) ==
  IF code = "no-speech" THEN error
  ELSE IF code # "aborted" THEN ErrRecognition \o code
  ELSE error

OnError(code) ==
  /\ isSupported
  /\ session # "stopped"
  /\ error' = set(onerror(code), error)
  /\ last' = DidEvent("error", code)
  /\ notified' = NoCall
  /\ endRun' = NoRun
  /\ trigger' = EmptyText
  /\ UNCHANGED << Config, now, state, hState, transcripts, interimTranscript,
                  isListeningRef, restartAttemptsRef, inactivityTimerRef,
                  timers, continuous, session, mounted >>

-----------------------------------------------------------------------------
(* recognition.onend: the session has ended                                *)

\* a plausible slip: the ceiling is tested with <=
shouldRestartOnceMore == isListeningRef /\ restartAttemptsRef <= maxRestartAttempts

shouldRestart == isListeningRef /\ restartAttemptsRef < maxRestartAttempts

OnEnd ==
  /\ isSupported
  /\ session # "stopped"
  /\ endRun' = [n |-> endRun.n + 1,
                from |-> IF endRun.n = 0 THEN state ELSE endRun.from]
  /\ trigger' = EmptyText
  /\ UNCHANGED << Config, now, hState, transcripts, interimTranscript,
                  inactivityTimerRef, timers, continuous, mounted >>
  /\ IF shouldRestart
     THEN \E outcome \in StartOutcomes("stopped") :
          LET exhausted == outcome # "ok"
                             /\ restartAttemptsRef + 1 >= maxRestartAttempts
          IN  /\ restartAttemptsRef' = restartAttemptsRef + 1
              /\ session' = IF outcome = "ok" THEN "running" ELSE "stopped"
              /\ error' = IF exhausted THEN set(ErrStopped, error) ELSE error
              /\ isListeningRef' = IF exhausted THEN FALSE ELSE isListeningRef
              /\ state' = IF exhausted THEN set(Idle, state) ELSE state
              /\ notified' = IF exhausted THEN Idle ELSE NoCall
              /\ last' = DidEvent("end", outcome)
     ELSE /\ session' = "stopped"
          /\ last' = DidEvent("end", "none")
          /\ notified' = NoCall
          /\ UNCHANGED << restartAttemptsRef, error, isListeningRef, state >>

-----------------------------------------------------------------------------
(* The component unmounts: the cleanup of the mount effect, lines 329-340. *)
(* The handlers stay registered on the recognition object; the useState    *)
(* values are dropped.                                                     *)

Unmount ==
  /\ mounted
  /\ mounted' = FALSE
  /\ timers' = timers \ { inactivityTimerRef }
  /\ state' = Idle
  /\ transcripts' = << >>
  /\ interimTranscript' = EmptyText
  /\ error' = NoError
  /\ notified' = NoCall
  /\ endRun' = NoRun
  /\ trigger' = EmptyText
  /\ UNCHANGED << Config, now, hState, isListeningRef, restartAttemptsRef,
                  inactivityTimerRef, continuous >>
  /\ IF ~isSupported
     THEN /\ last' = DidEvent("unmount", "")
          /\ UNCHANGED session
     ELSE \E outcome \in StopOutcomes :
          /\ last' = DidEvent("unmount", outcome)
          /\ session' = SessionAfterStop(outcome)

-----------------------------------------------------------------------------

Next ==
  \/ Render
  \/ Start
  \/ Stop
  \/ ClearTranscripts
  \/ \E b \in Batches : OnResult(b)
  \/ \E code \in ErrorCodes : OnError(code)
  \/ OnEnd
  \/ InactivityTimeout
  \/ Unmount

\* the behaviours at one reading of the clock: the clock is read for the id
\* and the timestamp of a log entry only, and the controller reads neither
Spec == Init /\ [][Next]_vars

-----------------------------------------------------------------------------
(* The behaviours in which the clock advances, for result batches of one   *)
(* segment: an entry takes its id from the clock, whatever its text.       *)

Tick ==
  /\ now < MaxNow
  /\ now' = now + 1
  /\ UNCHANGED << Config, state, hState, transcripts, interimTranscript, error,
                  isListeningRef, restartAttemptsRef, inactivityTimerRef,
                  timers, continuous, session, mounted, notified, endRun,
                  trigger, last >>

OneSegment == { b \in Batches : Len(b) = 1 }

NextClock ==
  \/ Tick
  \/ Render
  \/ Start
  \/ Stop
  \/ ClearTranscripts
  \/ \E b \in OneSegment : OnResult(b)
  \/ \E code \in ErrorCodes : OnError(code)
  \/ OnEnd
  \/ InactivityTimeout
  \/ Unmount

SpecClock == Init /\ [][NextClock]_vars

-----------------------------------------------------------------------------
(* Vocabulary of the properties                                            *)

Listening == { ListeningForWake, Transcribing }

Normalized(text) == trim(toLowerCase(text))

\* the text of a batch: its final text or, if it has none, its interim text
BatchText(b) == IF finalTextOf(b) # EmptyText THEN finalTextOf(b) ELSE interimTextOf(b)

HasWakeWord(text) == includes(Normalized(text), Normalized(wakeWord))

HasSleepWord(text) == includes(Normalized(text), Normalized(sleepWord))

HandlersCurrent == hState = state

-----------------------------------------------------------------------------
(* C1: every result batch delivered while the state is ListeningForWake    *)
(* sets the state to Transcribing if the batch text, lower-cased and       *)
(* trimmed, contains the lower-cased trimmed wake word, and leaves it      *)
(* ListeningForWake otherwise.                                             *)

CE_C1_WakeGate ==
  [][(last'.op = "result" /\ state = ListeningForWake)
       => \A b \in Batches :
            OnResult(b)
              => state' = IF HasWakeWord(BatchText(b)) THEN Transcribing
                          ELSE ListeningForWake]_vars

\* the same, for batches handled by handlers registered for the present state
WakeGateWhenHandlersCurrent ==
  [][(last'.op = "result" /\ state = ListeningForWake /\ HandlersCurrent)
       => \A b \in Batches :
            OnResult(b)
              => state' = IF HasWakeWord(BatchText(b)) THEN Transcribing
                          ELSE ListeningForWake]_vars

-----------------------------------------------------------------------------
(* C2: a result batch takes the state from Transcribing to                 *)
(* ListeningForWake only if its final text contains the sleep word         *)
(* (case-insensitive, trimmed substring); a batch that has the sleep word  *)
(* in interim text only leaves the state Transcribing. (Both hold of every  *)
(* step that leaves the state as it was, so only the other steps are       *)
(* examined.)                                                              *)

C2_SleepOnlyOnFinal ==
  [][(last'.op = "result" /\ state = Transcribing /\ state' # state)
       => \A b \in Batches :
            OnResult(b)
              => /\ state' = ListeningForWake => HasSleepWord(finalTextOf(b))
                 /\ (HasSleepWord(interimTextOf(b)) /\ ~HasSleepWord(finalTextOf(b)))
                      => state' = state]_vars

\* an interim text with the sleep word sits in the interim slot, still Transcribing
W_C2_InterimSleepWordShown ==
  /\ last.op = "result"
  /\ state = Transcribing
  /\ hState = Transcribing
  /\ HasSleepWord(interimTranscript)
  /\ ~HasWakeWord(interimTranscript)

-----------------------------------------------------------------------------
(* C3: no-logging invariant: a text that triggered a wake-word or          *)
(* sleep-word transition is never appended to the transcript log, the      *)
(* interim and the final segment of one utterance included: no entry is    *)
(* appended whose text is the interim text that has just matched the wake  *)
(* word.                                                                   *)

CE_C3_NoLogging ==
  [][(trigger # EmptyText /\ Len(transcripts') > Len(transcripts))
       => transcripts'[Len(transcripts')].text # trim(trigger)]_vars

-----------------------------------------------------------------------------
(* C4: while the state is Transcribing, a result batch whose final text is *)
(* not blank and has no sleep word appends exactly one entry (the trimmed  *)
(* final text, isFinal = true) to the end of the log, clears the interim   *)
(* text and leaves the state Transcribing; a batch with interim text only  *)
(* replaces the interim text and leaves the log alone.                     *)

AppendsFinal(b) ==
  /\ Len(transcripts') = Len(transcripts) + 1
  /\ SubSeq(transcripts', 1, Len(transcripts)) = transcripts
  /\ transcripts'[Len(transcripts')].text = trim(finalTextOf(b))
  /\ transcripts'[Len(transcripts')].isFinal
  /\ interimTranscript' = EmptyText
  /\ state' = Transcribing

ReplacesInterim(b) ==
  /\ interimTranscript' = interimTextOf(b)
  /\ transcripts' = transcripts

CE_C4_TranscribingLogs ==
  [][(last'.op = "result" /\ state = Transcribing)
       => \A b \in Batches :
            OnResult(b)
              => /\ (trim(finalTextOf(b)) # EmptyText
                       /\ ~HasSleepWord(finalTextOf(b))) => AppendsFinal(b)
                 /\ (finalTextOf(b) = EmptyText /\ interimTextOf(b) # EmptyText)
                      => ReplacesInterim(b)]_vars

\* the same, for handlers registered for the present state and interim text
\* that is not blank
TranscribingLogsWhenHandlersCurrent ==
  [][(last'.op = "result" /\ state = Transcribing /\ HandlersCurrent)
       => \A b \in Batches :
            OnResult(b)
              => /\ (trim(finalTextOf(b)) # EmptyText
                       /\ ~HasSleepWord(finalTextOf(b))) => AppendsFinal(b)
                 /\ (finalTextOf(b) = EmptyText
                       /\ trim(interimTextOf(b)) # EmptyText)
                      => ReplacesInterim(b)]_vars

-----------------------------------------------------------------------------
(* C5: restart ceiling: after maxRestartAttempts + 1 consecutive onend     *)
(* events that began in a listening state, the state is Idle and the error *)
(* is set.                                                                 *)

CE_C5_RestartCeiling ==
  (endRun.n = maxRestartAttempts + 1 /\ endRun.from \in Listening)
    => (state = Idle /\ error # NoError)

\* after maxRestartAttempts consecutive onend events, each followed by a
\* restart that succeeded, the state is the state before the first of them
ThreeRestartsKeepState ==
  (endRun.n = maxRestartAttempts /\ endRun.from \in Listening
     /\ session = "running")
    => state = endRun.from

-----------------------------------------------------------------------------
(* C6: inactivity timeout: whenever the controller is in ListeningForWake  *)
(* with its session running, an inactivity timer is pending, so that the   *)
(* timeout forces Idle when no result batch arrives.                       *)

CE_C6_TimerArmedWhileGating ==
  (state = ListeningForWake /\ isListeningRef /\ session = "running")
    => timers # { }

-----------------------------------------------------------------------------
(* C7: stop() is unconditional: called in any state, also when the         *)
(* session's stop() signals that it is not running, it leaves the state    *)
(* Idle, the interim text empty, the restart counter 0, no inactivity      *)
(* timer pending and the listening intent cleared.                         *)

CE_C7_StopUnconditional ==
  (last.op = "stop" /\ last.arg \in { "ok", "return", "recognition has not started" })
    => /\ state = Idle
       /\ interimTranscript = EmptyText
       /\ restartAttemptsRef = 0
       /\ timers = { }
       /\ ~isListeningRef

-----------------------------------------------------------------------------
(* C8: stop() called when the state is Idle leaves the state, the          *)
(* transcript log and the interim text unchanged and sets no error.        *)

CE_C8_StopIdempotent ==
  [][(Stop /\ state = Idle)
       => /\ state' = Idle
          /\ transcripts' = transcripts
          /\ interimTranscript' = interimTranscript
          /\ error' = error]_vars

-----------------------------------------------------------------------------
(* C9: start() called while a session is active (state ListeningForWake or *)
(* Transcribing) is a no-op: state, transcript log, interim text,          *)
(* continuous flag and restart counter are unchanged and no error is       *)
(* surfaced.                                                               *)

CE_C9_StartWhileActive ==
  [][(Start /\ state \in Listening /\ session = "running")
       => /\ state' = state
          /\ transcripts' = transcripts
          /\ interimTranscript' = interimTranscript
          /\ continuous' = continuous
          /\ restartAttemptsRef' = restartAttemptsRef
          /\ error' \in { error, NoError }]_vars

-----------------------------------------------------------------------------
(* C10: a session error event delivered to the mounted controller changes *)
(* neither the state, the transcript log nor the interim text; 'no-speech' *)
(* and 'aborted' leave the error field as it was, every other code sets it *)
(* and changes nothing else.                                               *)

C10_ErrorEventsOnlySetError ==
  [][\A code \in ErrorCodes :
       (mounted /\ OnError(code))
         => /\ UNCHANGED << Config, now, state, hState, transcripts, interimTranscript,
                            isListeningRef, restartAttemptsRef,
                            inactivityTimerRef, timers, continuous, session,
                            mounted >>
            /\ code \in { "no-speech", "aborted" } => error' = error
            /\ code \notin { "no-speech", "aborted" }
                 => error' = ErrRecognition \o code]_vars

\* 'network' has been reported while transcribing, with text on the screen
W_C10_ErrorReportedWhileTranscribing ==
  /\ last.op = "error"
  /\ last.arg = "network"
  /\ error = ErrRecognition \o "network"
  /\ state = Transcribing
  /\ transcripts # << >>
  /\ interimTranscript # EmptyText

-----------------------------------------------------------------------------
(* C11: when the session's start() or stop() call raises a failure that is  *)
(* not the already-started / not-started condition, the error field is set *)
(* and the state after the call is the state before the call.              *)

CE_C11_FailureSurfaced ==
  (last.op \in { "start", "stop" } /\ last.arg = "service unavailable")
    => (error # NoError /\ state = last.from)

\* what does hold: a failed start() sets the error, a failed stop() keeps the state
FailedStartSetsErrorFailedStopKeepsState ==
  /\ (last.op = "start" /\ last.arg = "service unavailable")
       => error = ErrStartFailed \o last.arg
  /\ (last.op = "stop" /\ last.arg = "service unavailable") => state = last.from

-----------------------------------------------------------------------------
(* C12: clearTranscripts() in any state empties the transcript log and the *)
(* interim text and leaves the state, the session, the continuous flag,    *)
(* the restart counter, the inactivity timer and the error unchanged.      *)

C12_ClearOnlyClearsText ==
  [][ClearTranscripts
       => /\ transcripts' = << >>
          /\ interimTranscript' = EmptyText
          /\ UNCHANGED << state, session, continuous, restartAttemptsRef,
                          inactivityTimerRef, timers, error >>]_vars

\* a log and an interim text have been cleared while transcribing, with an
\* error shown
W_C12_ClearedWhileTranscribing ==
  /\ last.op = "clear"
  /\ last.arg = "log and interim text"
  /\ transcripts = << >>
  /\ interimTranscript = EmptyText
  /\ state = Transcribing
  /\ session = "running"
  /\ continuous
  /\ error # NoError

-----------------------------------------------------------------------------
(* C13: in every reachable state the interim text is non-empty only if the *)
(* state is Transcribing.                                                  *)

CE_C13_InterimOnlyWhileTranscribing ==
  interimTranscript # EmptyText => state = Transcribing

-----------------------------------------------------------------------------
(* C14: once the controller has been torn down, no session event starts a  *)
(* session again and no inactivity timer is armed.                         *)

CE_C14_TeardownIsFinal ==
  [][~mounted'
       => /\ timers' \subseteq timers
          /\ session' = "running" => session = "running"]_vars

-----------------------------------------------------------------------------
(* C15: after an explicit stop() or an inactivity timeout the listening    *)
(* intent is cleared, only start() sets it again, and an onend event that  *)
(* arrives while it is cleared starts no session and changes neither the   *)
(* state, the error nor the restart counter.                               *)

C15_NoRestartAfterStop ==
  [][/\ ((Stop /\ isSupported) \/ InactivityTimeout) => ~isListeningRef'
     /\ (isListeningRef' /\ ~isListeningRef) => Start
     /\ (OnEnd /\ ~isListeningRef)
          => /\ session' = "stopped"
             /\ UNCHANGED << state, error, restartAttemptsRef >>]_vars

\* the session has ended after a stop() and has been left ended
W_C15_EndedAfterStop ==
  /\ last.op = "end"
  /\ last.arg = "none"
  /\ ~isListeningRef
  /\ mounted
  /\ state = Idle
  /\ session = "stopped"

-----------------------------------------------------------------------------
(* C16: onStateChange(s) is called only on actual transitions: the state   *)
(* before the operation that calls it differs from s.                      *)

CE_C16_NotifiesOnlyTransitions ==
  [][(mounted /\ notified' # NoCall) => notified' # state]_vars

-----------------------------------------------------------------------------
(* C17: in every reachable state an inactivity timer is pending only if    *)
(* the state is ListeningForWake.                                          *)

CE_C17_TimerOnlyWhileGating ==
  (mounted /\ timers # { }) => state = ListeningForWake

-----------------------------------------------------------------------------
(* C18: each result batch is handled by the rules of the state the         *)
(* previous event has produced: what it does to the state, the continuous  *)
(* flag, the restart counter, the log and the interim text is what the     *)
(* handler of that state does.                                             *)

CE_C18_HandledAgainstCurrentState ==
  [][(mounted /\ last'.op = "result" /\ state \in Listening /\ hState # state)
       => \A b \in Batches :
            OnResult(b)
              => LET r == onresult(state, finalTextOf(b), interimTextOf(b))
                 IN  /\ state' = r.state
                     /\ continuous' = r.continuous
                     /\ restartAttemptsRef' = r.restartAttempts
                     /\ transcripts' = r.transcripts
                     /\ interimTranscript' = r.interim]_vars

-----------------------------------------------------------------------------
(* C19: in every reachable state the continuous flag of the session is     *)
(* true if the state is Transcribing and false if it is ListeningForWake.  *)

C19_ContinuousMatchesState ==
  /\ state = Transcribing => continuous
  /\ state = ListeningForWake => ~continuous

\* a sleep-word match has just put the session back in single-utterance mode
W_C19_BackToGating ==
  /\ last.op = "result"
  /\ notified = ListeningForWake
  /\ state = ListeningForWake
  /\ ~continuous
  /\ transcripts # << >>

-----------------------------------------------------------------------------
(* C20: the restart counter stays between 0 and maxRestartAttempts, onend  *)
(* adds exactly 1 to it when it attempts a restart and leaves it alone     *)
(* otherwise, it is 0 after every wake-word detection, start() and stop(), *)
(* and a result batch without the wake word leaves it unchanged.           *)

C20_RestartCounter ==
  [][/\ restartAttemptsRef \in 0..maxRestartAttempts
     /\ restartAttemptsRef' \in 0..maxRestartAttempts
     /\ OnEnd => restartAttemptsRef' =
                   IF last'.arg = "none" THEN restartAttemptsRef
                   ELSE restartAttemptsRef + 1
     /\ (Start \/ Stop \/ InactivityTimeout) => restartAttemptsRef' = 0
     /\ (last'.op = "result" /\ notified' = Transcribing)
          => restartAttemptsRef' = 0
     /\ (last'.op = "result" /\ restartAttemptsRef' # restartAttemptsRef)
          => \A b \in Batches : OnResult(b) => HasWakeWord(BatchText(b))]_vars

\* the third restart in a row has been made
W_C20_ThirdRestart ==
  /\ last.op = "end"
  /\ last.arg = "ok"
  /\ restartAttemptsRef = maxRestartAttempts
  /\ session = "running"

-----------------------------------------------------------------------------
(* C21: a result batch delivered in ListeningForWake that has both final   *)
(* and interim text sets the state to Transcribing if and only if its      *)
(* final text contains the wake word; the interim text decides only when   *)
(* the batch has no final text.                                            *)

ScansFinalFirst(b) ==
  /\ finalTextOf(b) # EmptyText
       => (state' = Transcribing <=> HasWakeWord(finalTextOf(b)))
  /\ finalTextOf(b) = EmptyText
       => (state' = Transcribing <=> HasWakeWord(interimTextOf(b)))

CE_C21_FinalTextPreferred ==
  [][(mounted /\ last'.op = "result" /\ state = ListeningForWake)
       => \A b \in Batches : OnResult(b) => ScansFinalFirst(b)]_vars

\* the same, for batches handled by handlers registered for the present state
FinalTextPreferredWhenHandlersCurrent ==
  [][(mounted /\ last'.op = "result" /\ state = ListeningForWake
        /\ HandlersCurrent)
       => \A b \in Batches : OnResult(b) => ScansFinalFirst(b)]_vars

-----------------------------------------------------------------------------
(* C22: every operation of the mounted controller other than               *)
(* clearTranscripts() leaves the entries of the log as a prefix of the     *)
(* log, and a result batch delivered in Idle or ListeningForWake changes   *)
(* neither the log nor the interim text.                                   *)

KeepsEntries ==
  /\ Len(transcripts) <= Len(transcripts')
  /\ SubSeq(transcripts', 1, Len(transcripts)) = transcripts

CE_C22_LogWrittenOnlyWhileTranscribing ==
  [][mounted'
       => /\ ~ClearTranscripts => KeepsEntries
          /\ (last'.op = "result" /\ state \in { Idle, ListeningForWake })
               => UNCHANGED << transcripts, interimTranscript >>]_vars

\* what does hold: the log is append-only, and batches handled by handlers
\* registered for Idle or ListeningForWake leave log and interim text alone
LogAppendOnly ==
  [][mounted'
       => /\ ~ClearTranscripts => KeepsEntries
          /\ (last'.op = "result" /\ hState \in { Idle, ListeningForWake })
               => UNCHANGED << transcripts, interimTranscript >>]_vars

-----------------------------------------------------------------------------
(* C23: every entry of the log has a text that is trimmed and not empty,   *)
(* and an id that no other entry of the log has.                           *)

CE_C23_EntriesDistinct ==
  \A i \in 1..Len(transcripts) :
    /\ transcripts[i].text # EmptyText
    /\ transcripts[i].text = trim(transcripts[i].text)
    /\ \A j \in 1..Len(transcripts) :
         i # j => transcripts[i].id # transcripts[j].id

\* what does hold: the texts are trimmed and not empty, and entries made at
\* different readings of the clock have different ids
EntriesTrimmedAndDistinctAcrossTicks ==
  \A i \in 1..Len(transcripts) :
    /\ transcripts[i].text # EmptyText
    /\ transcripts[i].text = trim(transcripts[i].text)
    /\ \A j \in 1..Len(transcripts) :
         transcripts[i].timestamp # transcripts[j].timestamp
           => transcripts[i].id # transcripts[j].id

-----------------------------------------------------------------------------
(* C24: at most one inactivity timer is pending in every reachable state,  *)
(* and it is the one inactivityTimerRef holds: a timer that has been       *)
(* cancelled or superseded is not pending, so it cannot fire.              *)

C24_SingleTimer ==
  /\ Cardinality(timers) <= 1
  /\ timers \subseteq { inactivityTimerRef }

\* a result batch has armed the timer while gating on the wake word
W_C24_TimerArmedByResult ==
  /\ last.op = "result"
  /\ state = ListeningForWake
  /\ hState = ListeningForWake
  /\ restartAttemptsRef > 0
  /\ Cardinality(timers) = 1
  /\ timers = { inactivityTimerRef }

====
